---- MODULE Spec2Model ----
(***************************************************************************)
(* Metron batch pipeline: one batch job, its owning user, the background   *)
(* task that runs BatchProcessorService.processJob on the job, the cancel  *)
(* endpoint and the retention sweep.                                       *)
(*                                                                         *)
(* A Lucid model instance keeps its attributes ($attributes) and the       *)
(* values last read from or written to the database ($original); save()    *)
(* issues an UPDATE of the attributes that differ from $original.  The     *)
(* background task and each HTTP request hold their own instance of the    *)
(* same row, so the row (db) and the task's instance (mem, orig) are       *)
(* separate variables.                                                     *)
(***************************************************************************)
EXTENDS Integers, Sequences, FiniteSets, TLC

(* ------------------------------ bounds -------------------------------- *)
MaxRecords == 2
TickHours == 25
MaxHours == 25
MaxColumns == 4
MaxDeliveries == 3
TickMs == 30000
MaxClockMs == 150000
MaxSent == 12

(* ------------------------- program constants -------------------------- *)
UnitPriceCents == 10
BatchCeiling == 10000
BytesPerPdf == 50000
DownloadTtlHours == 24
RetentionHours == 24
ProgressEvery == 10
DefaultInvoiceCount == 1
RateLimitMax == 10
RateWindowMs == 60000

NoTime == -1
NoSize == -1
NoText == "null"
NaN == -2

VARIABLES
    now,        \* wall clock, in hours
    zipSize,    \* byte size of the uploaded archive (submit's estimate input)
    manifest,   \* rows of the uploaded metadata.csv
    ioFails,    \* whether file-system and database calls of this run may fail
    user,       \* the owning user's row
    userAtStart,\* the user's row when the job was submitted
    db,         \* the job's row in batch_jobs
    mem,        \* attributes of the job instance held by the background task
    orig,       \* $original of that instance
    pc,         \* position of the background task
    metadata,   \* processJob: parsed records
    idx,        \* processJob: index of the next record of the loop
    processed,  \* processJob: local counter
    errors,     \* processJob: local error list
    fatal,      \* message of the exception caught by the top-level handler
    result,     \* BatchProcessingResult returned by processJob
    packaged,   \* createOutputZip has returned
    fs,         \* files of this job on disk
    charged,    \* counts of the chargeForInvoices calls that committed
    logs,       \* invoice_logs rows written by logBatchInvoice
    attempts,   \* indexes of the records handed to processInvoice, in order
    cancelPc,   \* position of the cancel request in flight
    cancelJob,  \* the instance loaded by the cancel request (the attributes
                \* the handler reads or writes: status, completedAt)
    trx,        \* the chargeForInvoices transactions of the user's other jobs
    rowLock,    \* holder of the FOR UPDATE lock on the user's row (0: free)
    httpResp,   \* answer of the download or status request being served
    csv,        \* a row of metadata.csv as the CSV parser yields it, and the
                \* record parseCsv builds from it
    wh,         \* the deliveries of one Stripe event and the processed_events table
    rl          \* rateLimitStore, the clock of the limiter and its last answer

jobVars == <<db, mem, orig>>
taskVars == <<pc, metadata, idx, processed, errors, fatal, result, packaged, attempts>>
envVars == <<now, zipSize, manifest, ioFails, userAtStart>>
cancelVars == <<cancelPc, cancelJob>>
settleVars == <<trx, rowLock>>
auxVars == <<csv, wh, rl>>
vars == <<now, zipSize, manifest, ioFails, user, userAtStart, db, mem, orig, pc, metadata,
          idx, processed, errors, fatal, result, packaged, fs, charged, logs,
          attempts,
          cancelPc, cancelJob, trx, rowLock, httpResp, csv, wh, rl>>

(* ------------------------------ helpers ------------------------------- *)
Min(a, b) == IF a < b THEN a ELSE b
Max(a, b) == IF a > b THEN a ELSE b

NoList == [present |-> FALSE, items |-> <<>>]
SomeList(l) == [present |-> TRUE, items |-> l]

RECURSIVE SeqsUpTo(_, _)
SeqsUpTo(S, n) ==
    IF n = 0 THEN {<<>>}
    ELSE LET shorter == SeqsUpTo(S, n - 1)
         IN  shorter \cup {Append(s, x) : s \in {t \in shorter : Len(t) = n - 1}, x \in S}

RECURSIVE SumSeq(_)
SumSeq(s) == IF s = <<>> THEN 0 ELSE Head(s) + SumSeq(Tail(s))

(* --------------------------- the uploads ------------------------------ *)
\* Entries of the uploaded archive: first bytes and whether the PDF embedder
\* accepts the document.  missing.pdf is named by a manifest row only.
Archive ==
    [f \in {"a.pdf", "b.pdf", "c.pdf", "d.pdf"} |->
        CASE f = "a.pdf" -> [magic |-> "%PDF-", embeddable |-> TRUE]
          [] f = "b.pdf" -> [magic |-> "%PDF-", embeddable |-> TRUE]
          [] f = "c.pdf" -> [magic |-> "PK", embeddable |-> FALSE]
          [] f = "d.pdf" -> [magic |-> "%PDF-", embeddable |-> FALSE]]

\* Manifest rows as parseCsv returns them (filename and invoice number).
RowSet ==
    { [filename |-> "a.pdf", invoiceNumber |-> "INV1"],
      [filename |-> "b.pdf", invoiceNumber |-> "INV2"],
      [filename |-> "c.pdf", invoiceNumber |-> "INV3"],
      [filename |-> "d.pdf", invoiceNumber |-> "INV4"],
      [filename |-> "missing.pdf", invoiceNumber |-> "INV5"] }

\* A manifest is held as its leading rows and the number of further rows, each
\* of them a copy of FillerRow: the sequence rows \o <<FillerRow, ..., FillerRow>>.
FillerRow == [filename |-> "a.pdf", invoiceNumber |-> "INV1"]

RecordCount(m) == Len(m.rows) + m.extra
RecordAt(m, i) == IF i <= Len(m.rows) THEN m.rows[i] ELSE FillerRow
FirstRecords(m, n) == [i \in 1..n |-> RecordAt(m, i)]

NoRecords == [rows |-> <<>>, extra |-> 0]

\* one row more than the batch ceiling
OversizedManifest == [rows |-> <<>>, extra |-> BatchCeiling + 1]

Manifests ==
    {[rows |-> r, extra |-> 0] : r \in SeqsUpTo(RowSet, MaxRecords)} \cup {OversizedManifest}

ZipSizes == {60000}

Users ==
    { [plan |-> "free", subscriptionEndsAt |-> NoTime, creditBalance |-> 0,
       invoicesUsedThisMonth |-> 0],
      [plan |-> "pro", subscriptionEndsAt |-> TickHours, creditBalance |-> 0,
       invoicesUsedThisMonth |-> 0],
      [plan |-> "pro", subscriptionEndsAt |-> NoTime, creditBalance |-> UnitPriceCents,
       invoicesUsedThisMonth |-> 0] }

\* the users of the concurrent settlements: one more, with credit for every
\* settlement of the run
SettleUsers ==
    Users \cup { [plan |-> "pro", subscriptionEndsAt |-> NoTime,
                  creditBalance |-> 2 * MaxRecords * UnitPriceCents,
                  invoicesUsedThisMonth |-> 0] }

\* the other jobs of the user whose settlement runs concurrently
Settlements == {1, 2}

NoRow ==
    [plan |-> "free", subscriptionEndsAt |-> NoTime, creditBalance |-> 0,
     invoicesUsedThisMonth |-> 0]

NoSettlement == [pc |-> "none", count |-> 0, row |-> NoRow]

NoResponse ==
    [kind |-> "none", code |-> NoText, status |-> NoText, progress |-> 0,
     downloadAvailable |-> FALSE]

(* ----------------------------- the user ------------------------------- *)
hasActiveSubscription(u) ==
    IF u.plan = "free" THEN FALSE
    ELSE IF u.subscriptionEndsAt = NoTime THEN FALSE
    ELSE u.subscriptionEndsAt > now

\* canGenerateInvoices(count).allowed
canGenerateInvoices(u, count) ==
    IF u.plan = "free"
    THEN IF u.invoicesUsedThisMonth >= 1 THEN FALSE
         ELSE IF count > 1 THEN FALSE
         ELSE TRUE
    ELSE IF hasActiveSubscription(u) THEN TRUE
    ELSE u.creditBalance >= count * UnitPriceCents

\* the quota middleware of the submit route, for a request that carries no
\* X-Invoice-Count header
quotaCheck(u) == canGenerateInvoices(u, DefaultInvoiceCount)

\* the balance is debited without being compared with the cost
chargeForInvoicesUnchecked(u, count) ==
    IF u.plan = "free" \/ hasActiveSubscription(u)
    THEN [ok |-> TRUE,
          user |-> [u EXCEPT !.invoicesUsedThisMonth = @ + count]]
    ELSE [ok |-> TRUE,
          user |-> [u EXCEPT !.creditBalance = @ - count * UnitPriceCents,
                             !.invoicesUsedThisMonth = @ + count]]

\* chargeForInvoices: the transaction's outcome, [ok, user]
chargeForInvoices(u, count) ==
    IF u.plan = "free" \/ hasActiveSubscription(u)
    THEN [ok |-> TRUE,
          user |-> [u EXCEPT !.invoicesUsedThisMonth = @ + count]]
    ELSE LET costCents == count * UnitPriceCents
         IN  IF u.creditBalance < costCents
             THEN [ok |-> FALSE, user |-> u]
             ELSE [ok |-> TRUE,
                   user |-> [u EXCEPT !.creditBalance = @ - costCents,
                                      !.invoicesUsedThisMonth = @ + count]]

(* ------------------------------ the job ------------------------------- *)
Terminal == {"completed", "failed", "cancelled"}

estimatedInvoices(size) == Min(BatchCeiling, Max(1, size \div BytesPerPdf))

createJob(totalInvoices) ==
    [ status |-> "pending",
      totalInvoices |-> totalInvoices,
      processedInvoices |-> 0,
      failedInvoices |-> 0,
      progress |-> 0,
      inputZipPath |-> "invoices.zip",
      metadataCsvPath |-> "metadata.csv",
      outputZipPath |-> NoText,
      outputSizeBytes |-> NoSize,
      downloadUrl |-> NoText,
      downloadExpiresAt |-> NoTime,
      totalCostCents |-> totalInvoices * UnitPriceCents,
      errorMessage |-> NoText,
      errorsDetail |-> NoList,
      startedAt |-> NoTime,
      completedAt |-> NoTime ]

\* the attributes of a job instance that the cancel endpoint reads or writes
CancelView(row) == [status |-> row.status, completedAt |-> row.completedAt]

\* value of cancelJob while no cancel request holds an instance
NoJob == CancelView(createJob(0))

\* Math.round(x / y * 100) on non-negative integers
RoundPercent(x, y) == IF y = 0 THEN NaN ELSE (200 * x + y) \div (2 * y)

startProcessing(j) == [j EXCEPT !.status = "processing", !.startedAt = now]

\* the percentage is taken of the records that remain
updateProgressRemaining(j, p, f) ==
    [j EXCEPT !.processedInvoices = p,
              !.failedInvoices = f,
              !.progress = RoundPercent(j.totalInvoices - p, j.totalInvoices)]

updateProgress(j, p, f) ==
    [j EXCEPT !.processedInvoices = p,
              !.failedInvoices = f,
              !.progress = RoundPercent(p, j.totalInvoices)]

markCompleted(j, path, size) ==
    [j EXCEPT !.status = "completed",
              !.outputZipPath = path,
              !.outputSizeBytes = size,
              !.progress = 100,
              !.completedAt = now,
              !.downloadExpiresAt = now + DownloadTtlHours]

markFailed(j, message, detail) ==
    [j EXCEPT !.status = "failed",
              !.errorMessage = message,
              !.errorsDetail = detail,
              !.completedAt = now]

cancel(j) == [j EXCEPT !.status = "cancelled", !.completedAt = now]

\* save(): UPDATE of the attributes of instance j that differ from $original o
Persist(row, j, o) ==
    [f \in DOMAIN row |-> IF f \in DOMAIN j /\ j[f] # o[f] THEN j[f] ELSE row[f]]

(* --------------------------- processInvoice --------------------------- *)
\* findPdfFile: the archive entry named by the record, if any
findPdfFile(filename) == IF filename \in DOMAIN Archive THEN filename ELSE NoText

\* processInvoice: "ok" when the output file is written, else the message thrown
processInvoice(row) ==
    LET pdfPath == findPdfFile(row.filename)
    IN  IF pdfPath = NoText THEN "Fichier PDF non trouve"
        ELSE IF Archive[pdfPath].magic # "%PDF-" THEN "Le fichier n'est pas un PDF valide"
        ELSE IF ~Archive[pdfPath].embeddable THEN "embedXmlInPdf"
        ELSE "ok"

outputFilename(row) == row.invoiceNumber

\* the failure is swallowed without being recorded
PushErrorDropped(errs, row, message) == errs

PushError(errs, row, message) == Append(errs, [filename |-> row.filename, error |-> message])

\* the ceiling is not enforced
ExceedsCeilingNever(n) == FALSE

\* the limit check on the parsed manifest
ExceedsCeiling(n) == n > BatchCeiling

\* the cadence test of the loop
ProgressDue(p, f) == p % ProgressEvery = 0 \/ f % ProgressEvery = 0

\* the loop is followed by the settlement
LoopNextSettling(i, records) ==
    IF i > RecordCount(records) THEN "charge" ELSE "processInvoice"

\* where the for-loop goes with i the index of the next record
LoopNext(i, records) ==
    IF i > RecordCount(records) THEN "createOutputZip" ELSE "processInvoice"

\* archive.pointer(): bytes written for an archive of the given files
ArchiveBytes(files) == 22 + 100 * Cardinality(files)

OutputZipName == "facturx.zip"

\* the estimate made at submission is kept
CorrectTotalSkipped(j, n) == j

\* the cost computed at submission is kept
CorrectTotalCostKept(j, n) ==
    IF n # j.totalInvoices THEN [j EXCEPT !.totalInvoices = n] ELSE j

CorrectTotal(j, n) ==
    IF n # j.totalInvoices
    THEN [j EXCEPT !.totalInvoices = n, !.totalCostCents = n * UnitPriceCents]
    ELSE j

NoResult ==
    [returned |-> FALSE, success |-> FALSE, totalProcessed |-> 0, totalFailed |-> 0,
     outputZipPath |-> NoText, outputSizeBytes |-> NoSize, errors |-> <<>>]

(* ------------------------------ parseCsv ------------------------------ *)
\* value of record.<header> when the file has no such column
Undefined == "undefined"

\* the header aliases of a logical field, in the order parseCsv reads them
SellerSiretAliases == <<"sellerSiret", "siret_vendeur", "seller_siret">>
SellerCountryAliases == <<"sellerCountryCode", "pays_vendeur", "seller_country">>
BuyerCountryAliases == <<"buyerCountryCode", "pays_acheteur", "buyer_country">>
CurrencyAliases == <<"currencyCode", "devise", "currency">>

Headers ==
    {a[i] : a \in {SellerSiretAliases, SellerCountryAliases, BuyerCountryAliases,
                   CurrencyAliases}, i \in 1..3}

\* Rows of a file of at most maxColumns columns as the CSV parser yields them
\* (columns: true, trim: true): a string per column, possibly empty.  A populated cell holds the name of
\* its column, so that the cells of a row are told apart.
CsvRows(maxColumns) ==
    UNION { { [h \in Headers |-> IF h \notin cols THEN Undefined
                                 ELSE IF h \in empty THEN "" ELSE h] :
                 empty \in SUBSET cols } :
            cols \in {c \in SUBSET Headers : Cardinality(c) <= maxColumns} }

\* the empty string counts as a value
TruthyOrEmpty(v) == v # Undefined

\* JavaScript truthiness of a cell
Truthy(v) == v # Undefined /\ v # ""

\* a || b
JsOr(a, b) == IF Truthy(a) THEN a ELSE b

\* the record parseCsv pushes for a row (the fields with a default, and one
\* field without)
parseCsvRecord(record) ==
    [ sellerSiret |->
          JsOr(JsOr(record["sellerSiret"], record["siret_vendeur"]), record["seller_siret"]),
      sellerCountryCode |->
          JsOr(JsOr(JsOr(record["sellerCountryCode"], record["pays_vendeur"]),
                    record["seller_country"]), "FR"),
      buyerCountryCode |->
          JsOr(JsOr(JsOr(record["buyerCountryCode"], record["pays_acheteur"]),
                    record["buyer_country"]), "FR"),
      currencyCode |->
          JsOr(JsOr(JsOr(record["currencyCode"], record["devise"]),
                    record["currency"]), "EUR") ]

NoCsv ==
    [row |-> [h \in Headers |-> Undefined], parsed |-> FALSE,
     out |-> [sellerSiret |-> Undefined, sellerCountryCode |-> Undefined,
              buyerCountryCode |-> Undefined, currencyCode |-> Undefined]]

(* -------------------------- Stripe webhooks --------------------------- *)
Deliveries == 1..MaxDeliveries

\* the event delivered: its type and, for a subscription, status and period end
WebhookEvents ==
    { [type |-> "customer.subscription.updated", status |-> "active",
       periodEnd |-> TickHours],
      [type |-> "customer.subscription.updated", status |-> "past_due",
       periodEnd |-> TickHours],
      [type |-> "customer.subscription.deleted", status |-> "canceled",
       periodEnd |-> NoTime],
      [type |-> "invoice.payment_succeeded", status |-> NoText, periodEnd |-> NoTime],
      [type |-> "invoice.payment_failed", status |-> NoText, periodEnd |-> NoTime],
      [type |-> "checkout.session.completed", status |-> NoText, periodEnd |-> NoTime] }

\* the users a webhook can find: those of Users, with a used monthly counter too
WebhookUsers == {[u EXCEPT !.invoicesUsedThisMonth = n] : u \in Users, n \in 0..1}

handleSubscriptionUpdate(u, e) ==
    IF e.status = "active" \/ e.status = "trialing"
    THEN [u EXCEPT !.plan = "pro", !.subscriptionEndsAt = e.periodEnd]
    ELSE u

handleSubscriptionDeleted(u) == [u EXCEPT !.plan = "free"]

handlePaymentSucceeded(u) == [u EXCEPT !.invoicesUsedThisMonth = 0]

\* the switch of handleWebhookEvent: the user row its handler saves
dispatch(u, e) ==
    CASE e.type = "customer.subscription.updated" -> handleSubscriptionUpdate(u, e)
      [] e.type = "customer.subscription.deleted" -> handleSubscriptionDeleted(u)
      [] e.type = "invoice.payment_succeeded" -> handlePaymentSucceeded(u)
      [] OTHER -> u

NoWebhook ==
    [event |-> [type |-> "checkout.session.completed", status |-> NoText,
                periodEnd |-> NoTime],
     marker |-> FALSE, holder |-> 0, applied |-> 0,
     pc |-> [d \in Deliveries |-> "none"]]

\* processed_events has no unique index
uniqueIndexAbsent(w) == "free"

\* INSERT under the unique index on stripe_event_id: it waits for the
\* transaction that holds an uncommitted row with the key, and fails once a
\* row with the key is committed
uniqueIndex(w) ==
    IF w.holder # 0 THEN "wait"
    ELSE IF w.marker THEN "violation"
    ELSE "free"

(* --------------------------- the rate limiter ------------------------- *)
\* the keys of two API users behind one address, on the batch submit route
Keys == {"ratelimit:batch-submit:1:10.0.0.1", "ratelimit:batch-submit:2:10.0.0.1"}

\* rateLimitStore.get(key) of an absent key
NoEntry == [count |-> 0, resetAt |-> NoTime]

NoWindow == [endsAt |-> NoTime, routed |-> 0]

\* the limit is enforced one request late
limitExceededLate(entry) == entry.count > RateLimitMax + 1

limitExceeded(entry) == entry.count > RateLimitMax

\* RateLimitMiddleware.handle: the store after the request and its answer
handle(store, key, nowMs) ==
    LET old == store[key]
        entry == IF old = NoEntry \/ old.resetAt < nowMs
                 THEN [count |-> 1, resetAt |-> nowMs + RateWindowMs]
                 ELSE [old EXCEPT !.count = @ + 1]
    IN  [store |-> [store EXCEPT ![key] = entry],
         code |-> IF limitExceeded(entry) THEN "RATE_LIMIT_EXCEEDED" ELSE "next"]

\* the periodic cleanup of the store
cleaned(store, nowMs) ==
    [k \in Keys |-> IF store[k] # NoEntry /\ store[k].resetAt < nowMs
                    THEN NoEntry ELSE store[k]]

NoLimiter ==
    [store |-> [k \in Keys |-> NoEntry], clock |-> 0, sent |-> 0,
     last |-> [key |-> NoText, code |-> NoText],
     window |-> [k \in Keys |-> NoWindow]]

\* no row is parsed, no webhook is delivered and no request is rate limited
AuxIdle == csv = NoCsv /\ wh = NoWebhook /\ rl = NoLimiter

(* ------------------------------- Init --------------------------------- *)
Init ==
    /\ now = 0
    /\ zipSize \in ZipSizes
    /\ manifest \in Manifests
    /\ ioFails \in BOOLEAN
    /\ user \in Users
    /\ quotaCheck(user)
    /\ userAtStart = user
    /\ db = createJob(estimatedInvoices(zipSize))
    /\ mem = db
    /\ orig = db
    /\ pc = "mkdir"
    /\ metadata = NoRecords
    /\ idx = 1
    /\ processed = 0
    /\ errors = <<>>
    /\ fatal = NoText
    /\ result = NoResult
    /\ packaged = FALSE
    /\ fs = [input |-> FALSE, output |-> FALSE, outFiles |-> {}, zip |-> FALSE,
             zipFiles |-> {}, uploadZip |-> TRUE, uploadCsv |-> TRUE]
    /\ charged = <<>>
    /\ logs = <<>>
    /\ attempts = <<>>
    /\ cancelPc = "idle"
    /\ cancelJob = NoJob
    /\ trx = [t \in Settlements |-> NoSettlement]
    /\ rowLock = 0
    /\ httpResp = NoResponse
    /\ AuxIdle

(* ------------------------- the background task ------------------------ *)
SaveOk(j) == mem' = j /\ orig' = j /\ db' = Persist(db, j, orig)
SaveThrows(j) == mem' = j /\ UNCHANGED <<db, orig>>

Throw(message) == pc' = "catch" /\ fatal' = message

\* an exception raised by the file system or the database
IoThrow(message) == ioFails /\ Throw(message)

Mkdir ==
    /\ pc = "mkdir"
    /\ \/ /\ fs' = [fs EXCEPT !.input = TRUE, !.output = TRUE]
          /\ pc' = "startProcessing"
          /\ UNCHANGED fatal
       \/ /\ \E made \in BOOLEAN : fs' = [fs EXCEPT !.input = made]
          /\ IoThrow("mkdir")
    /\ UNCHANGED <<auxVars, settleVars, httpResp, envVars, user, jobVars, metadata, idx, processed, errors, result, packaged,
                   attempts, charged, logs, cancelVars>>

StartProcessing ==
    /\ pc = "startProcessing"
    /\ \/ SaveOk(startProcessing(mem)) /\ pc' = "extractZip" /\ UNCHANGED fatal
       \/ SaveThrows(startProcessing(mem)) /\ IoThrow("save")
    /\ UNCHANGED <<auxVars, settleVars, httpResp, envVars, user, metadata, idx, processed, errors, result, packaged, attempts,
                   fs, charged, logs, cancelVars>>

ExtractZip ==
    /\ pc = "extractZip"
    /\ \/ pc' = "parseCsv" /\ UNCHANGED fatal
       \/ IoThrow("extractZip")
    /\ UNCHANGED <<auxVars, settleVars, httpResp, envVars, user, jobVars, metadata, idx, processed, errors, result, packaged,
                   attempts, fs, charged, logs, cancelVars>>

ParseCsv ==
    /\ pc = "parseCsv"
    /\ \/ /\ ~ExceedsCeiling(RecordCount(manifest))
          /\ metadata' = manifest
          /\ mem' = CorrectTotal(mem, RecordCount(manifest))
          /\ pc' = IF RecordCount(manifest) # mem.totalInvoices THEN "saveTotal"
                   ELSE LoopNext(1, manifest)
          /\ UNCHANGED fatal
       \/ /\ ExceedsCeiling(RecordCount(manifest))
          /\ metadata' = manifest
          /\ Throw("Maximum autorise: 10000")
          /\ UNCHANGED mem
       \/ /\ IoThrow("parseCsv")
          /\ UNCHANGED <<metadata, mem>>
    /\ UNCHANGED <<auxVars, settleVars, httpResp, envVars, user, db, orig, idx, processed, errors, result, packaged, attempts,
                   fs, charged, logs, cancelVars>>

SaveTotal ==
    /\ pc = "saveTotal"
    /\ \/ SaveOk(mem) /\ pc' = LoopNext(1, metadata) /\ UNCHANGED fatal
       \/ SaveThrows(mem) /\ IoThrow("save")
    /\ UNCHANGED <<auxVars, settleVars, httpResp, envVars, user, metadata, idx, processed, errors, result, packaged, attempts,
                   fs, charged, logs, cancelVars>>

ProcessInvoice ==
    /\ pc = "processInvoice"
    /\ LET row == RecordAt(metadata, idx)
           message == processInvoice(row)
           p == IF message = "ok" THEN processed + 1 ELSE processed
           e == IF message = "ok" THEN errors ELSE PushError(errors, row, message)
       IN  /\ processed' = p
           /\ errors' = e
           /\ fs' = IF message = "ok"
                    THEN [fs EXCEPT !.outFiles = @ \cup {outputFilename(row)}]
                    ELSE fs
           /\ attempts' = Append(attempts, idx)
           /\ idx' = idx + 1
           /\ pc' = IF ProgressDue(p, Len(e)) THEN "updateProgress"
                    ELSE LoopNext(idx + 1, metadata)
    /\ UNCHANGED <<auxVars, settleVars, httpResp, envVars, user, jobVars, metadata, fatal, result, packaged, charged,
                   logs, cancelVars>>

UpdateProgress ==
    /\ pc = "updateProgress"
    /\ \/ /\ SaveOk(updateProgress(mem, processed, Len(errors)))
          /\ pc' = LoopNext(idx, metadata)
          /\ UNCHANGED fatal
       \/ SaveThrows(updateProgress(mem, processed, Len(errors))) /\ IoThrow("save")
    /\ UNCHANGED <<auxVars, settleVars, httpResp, envVars, user, metadata, idx, processed, errors, result, packaged, attempts,
                   fs, charged, logs, cancelVars>>

CreateOutputZip ==
    /\ pc = "createOutputZip"
    /\ \/ /\ fs' = [fs EXCEPT !.zip = TRUE, !.zipFiles = fs.outFiles]
          /\ packaged' = TRUE
          /\ pc' = "finalize"
          /\ UNCHANGED fatal
       \/ /\ fs' = [fs EXCEPT !.zip = TRUE]
          /\ IoThrow("createOutputZip")
          /\ UNCHANGED packaged
    /\ UNCHANGED <<auxVars, settleVars, httpResp, envVars, user, jobVars, metadata, idx, processed, errors, result,
                   attempts, charged, logs, cancelVars>>

\* every batch is finalised as completed
FinalizedCompleted(j, errs, records) ==
    markCompleted(j, OutputZipName, ArchiveBytes(fs.zipFiles))

\* step 5 of processJob: the instance after markFailed or markCompleted
Finalized(j, errs, records) ==
    IF Len(errs) = RecordCount(records)
    THEN markFailed(j, "Toutes les factures ont echoue", SomeList(errs))
    ELSE markCompleted(j, OutputZipName, ArchiveBytes(fs.zipFiles))

Finalize ==
    /\ pc = "finalize"
    /\ \/ /\ SaveOk(Finalized(mem, errors, metadata))
          /\ pc' = IF Len(errors) # RecordCount(metadata) /\ Len(errors) > 0
                   THEN "saveErrors"
                   ELSE "charge"
          /\ UNCHANGED fatal
       \/ SaveThrows(Finalized(mem, errors, metadata)) /\ IoThrow("save")
    /\ UNCHANGED <<auxVars, settleVars, httpResp, envVars, user, metadata, idx, processed, errors, result, packaged, attempts,
                   fs, charged, logs, cancelVars>>

SaveErrors ==
    /\ pc = "saveErrors"
    /\ \/ /\ SaveOk([mem EXCEPT !.errorsDetail = SomeList(errors)])
          /\ pc' = "charge"
          /\ UNCHANGED fatal
       \/ SaveThrows([mem EXCEPT !.errorsDetail = SomeList(errors)]) /\ IoThrow("save")
    /\ UNCHANGED <<auxVars, settleVars, httpResp, envVars, user, metadata, idx, processed, errors, result, packaged, attempts,
                   fs, charged, logs, cancelVars>>

Charge ==
    /\ pc = "charge"
    /\ LET r == chargeForInvoices(user, processed)
       IN  \/ /\ r.ok
              /\ user' = r.user
              /\ charged' = Append(charged, processed)
              /\ pc' = "logUsage"
              /\ UNCHANGED fatal
           \/ /\ ~r.ok
              /\ Throw("Credit insuffisant")
              /\ UNCHANGED <<user, charged>>
           \/ /\ IoThrow("transaction")
              /\ UNCHANGED <<user, charged>>
    /\ UNCHANGED <<auxVars, settleVars, httpResp, envVars, jobVars, metadata, idx, processed, errors, result, packaged, attempts,
                   fs, logs, cancelVars>>

logBatchInvoice(count, failedCount) ==
    [type |-> "batch", invoiceCount |-> count, costCents |-> count * UnitPriceCents,
     status |-> "pending", failedCount |-> failedCount]

LogUsage ==
    /\ pc = "logUsage"
    /\ \/ /\ logs' = Append(logs, logBatchInvoice(processed, Len(errors)))
          /\ pc' = "release"
          /\ UNCHANGED fatal
       \/ /\ IoThrow("logBatchInvoice")
          /\ UNCHANGED logs
    /\ UNCHANGED <<auxVars, settleVars, httpResp, envVars, user, jobVars, metadata, idx, processed, errors, result, packaged,
                   attempts, fs, charged, cancelVars>>

Release ==
    /\ pc = "release"
    /\ \/ /\ fs' = [fs EXCEPT !.input = FALSE, !.uploadZip = FALSE, !.uploadCsv = FALSE]
          /\ result' = [returned |-> TRUE,
                        success |-> Len(errors) < RecordCount(metadata),
                        totalProcessed |-> processed,
                        totalFailed |-> Len(errors),
                        outputZipPath |-> OutputZipName,
                        outputSizeBytes |-> ArchiveBytes(fs.zipFiles),
                        errors |-> errors]
          /\ pc' = "done"
          /\ UNCHANGED fatal
       \/ /\ \E zipGone \in BOOLEAN :
                fs' = [fs EXCEPT !.input = FALSE, !.uploadZip = ~zipGone]
          /\ IoThrow("rm")
          /\ UNCHANGED result
    /\ UNCHANGED <<auxVars, settleVars, httpResp, envVars, user, jobVars, metadata, idx, processed, errors, packaged,
                   attempts, charged, logs, cancelVars>>

\* the top-level handler of processJob
Catch ==
    /\ pc = "catch"
    /\ \/ /\ SaveOk(markFailed(mem, fatal, NoList))
          /\ fs' = [fs EXCEPT !.input = FALSE, !.output = FALSE, !.outFiles = {},
                              !.zip = FALSE, !.zipFiles = {}]
          /\ result' = [returned |-> TRUE,
                        success |-> FALSE,
                        totalProcessed |-> 0,
                        totalFailed |-> mem.totalInvoices,
                        outputZipPath |-> NoText,
                        outputSizeBytes |-> NoSize,
                        errors |-> <<[filename |-> "*", error |-> fatal]>>]
          /\ pc' = "done"
          /\ UNCHANGED fatal
       \/ /\ ioFails
          /\ SaveThrows(markFailed(mem, fatal, NoList))
          /\ pc' = "backgroundCatch"
          /\ fatal' = "save"
          /\ UNCHANGED <<fs, result>>
    /\ UNCHANGED <<auxVars, settleVars, httpResp, envVars, user, metadata, idx, processed, errors, packaged, attempts,
                   charged, logs, cancelVars>>

\* the handler of processInBackground
BackgroundCatch ==
    /\ pc = "backgroundCatch"
    /\ \/ SaveOk(markFailed(mem, fatal, NoList)) /\ pc' = "done"
       \/ ioFails /\ SaveThrows(markFailed(mem, fatal, NoList)) /\ pc' = "unhandledRejection"
    /\ UNCHANGED <<auxVars, settleVars, httpResp, envVars, user, metadata, idx, processed, errors, fatal, result, packaged,
                   attempts, fs, charged, logs, cancelVars>>

(* -------------------------- the cancel endpoint ----------------------- *)
CancelLoad ==
    /\ cancelPc = "idle"
    /\ cancelJob' = CancelView(db)
    /\ cancelPc' = "loaded"
    /\ UNCHANGED <<auxVars, settleVars, httpResp, envVars, user, jobVars, taskVars, fs, charged, logs>>

\* the answer of the cancel endpoint for the instance it loaded
cancelResponse(j) == IF j.status \in Terminal THEN "CANNOT_CANCEL" ELSE "Batch annule"

CancelDecide ==
    /\ cancelPc = "loaded"
    /\ IF cancelResponse(cancelJob) = "CANNOT_CANCEL"
       THEN UNCHANGED db
       ELSE db' = Persist(db, cancel(cancelJob), cancelJob)
    /\ cancelPc' = "idle"
    /\ cancelJob' = NoJob
    /\ UNCHANGED <<auxVars, settleVars, httpResp, envVars, user, mem, orig, taskVars, fs, charged, logs>>

(* -------------------------- the retention sweep ----------------------- *)
SweepSelects(row) ==
    /\ row.status = "completed"
    /\ row.completedAt # NoTime
    /\ row.completedAt < now - RetentionHours

\* the sweep also resets the count of composed invoices
SweptAndReset(row) ==
    [row EXCEPT !.outputZipPath = NoText, !.downloadUrl = NoText,
                !.processedInvoices = 0]

\* the sweep also rewrites the stored archive size
SweptHalving(row) ==
    [row EXCEPT !.outputZipPath = NoText, !.downloadUrl = NoText,
                !.outputSizeBytes = @ \div 2]

Swept(row) == [row EXCEPT !.outputZipPath = NoText, !.downloadUrl = NoText]

\* rm of the output archive and of the job's directory
SweptFiles(files) ==
    [files EXCEPT !.input = FALSE, !.output = FALSE, !.outFiles = {},
                  !.zip = FALSE, !.zipFiles = {}]

cleanupOldJobs ==
    /\ SweepSelects(db)
    /\ \/ /\ fs' = SweptFiles(fs)
          /\ db' = Persist(db, Swept(db), db)
       \/ ioFails /\ UNCHANGED <<fs, db>>
       \/ ioFails /\ fs' = SweptFiles(fs) /\ UNCHANGED db
    /\ UNCHANGED <<auxVars, settleVars, httpResp, envVars, user, mem, orig, taskVars, charged, logs, cancelVars>>

(* ------------------- the download and status endpoints ---------------- *)
\* the download stays valid whatever the expiry date
isDownloadValidForever(row) == row.status = "completed"

isDownloadValid(row) ==
    IF row.status # "completed" THEN FALSE
    ELSE IF row.downloadExpiresAt = NoTime THEN FALSE
    ELSE row.downloadExpiresAt > now

toPublicJSON(row) ==
    [kind |-> "status", code |-> NoText, status |-> row.status,
     progress |-> row.progress, downloadAvailable |-> isDownloadValid(row)]

\* the answer of the download endpoint for the job it loaded
download(row) ==
    LET answer(code) ==
            [kind |-> "download", code |-> code, status |-> row.status,
             progress |-> row.progress, downloadAvailable |-> FALSE]
    IN  IF row.status # "completed" THEN answer("JOB_NOT_COMPLETED")
        ELSE IF ~isDownloadValid(row) THEN answer("DOWNLOAD_EXPIRED")
        ELSE IF row.outputZipPath = NoText THEN answer("OUTPUT_NOT_FOUND")
        ELSE answer("FILE")

Download ==
    /\ httpResp = NoResponse
    /\ httpResp' = download(db)
    /\ UNCHANGED <<auxVars, settleVars, envVars, user, jobVars, taskVars, fs, charged, logs,
                   cancelVars>>

Status ==
    /\ httpResp = NoResponse
    /\ httpResp' = toPublicJSON(db)
    /\ UNCHANGED <<auxVars, settleVars, envVars, user, jobVars, taskVars, fs, charged, logs,
                   cancelVars>>

ResponseSent ==
    /\ httpResp # NoResponse
    /\ httpResp' = NoResponse
    /\ UNCHANGED <<auxVars, settleVars, envVars, user, jobVars, taskVars, fs, charged, logs,
                   cancelVars>>

(* ---------------------- concurrent settlements ------------------------ *)
\* the row is read without waiting for its lock
RowFreeIgnored(t) == TRUE

\* SELECT ... FOR UPDATE returns once no other transaction holds the row
RowFree(t) == rowLock = 0

\* chargeForInvoices of job t: begin the transaction and read the row
SettleBegin(t) ==
    /\ trx[t].pc = "ready"
    /\ RowFree(t)
    /\ rowLock' = t
    /\ trx' = [trx EXCEPT ![t].pc = "locked", ![t].row = user]
    /\ UNCHANGED <<auxVars, httpResp, envVars, user, jobVars, taskVars, fs, charged, logs,
                   cancelVars>>

\* chargeForInvoices of job t: save and commit, or throw and roll back
SettleCommit(t) ==
    /\ trx[t].pc = "locked"
    /\ LET r == chargeForInvoices(trx[t].row, trx[t].count)
       IN  IF r.ok
           THEN user' = r.user /\ trx' = [trx EXCEPT ![t].pc = "committed"]
           ELSE UNCHANGED user /\ trx' = [trx EXCEPT ![t].pc = "rolledBack"]
    /\ rowLock' = IF rowLock = t THEN 0 ELSE rowLock
    /\ UNCHANGED <<auxVars, httpResp, envVars, jobVars, taskVars, fs, charged, logs, cancelVars>>

(* ------------------------------ the clock ----------------------------- *)
Tick ==
    /\ now + TickHours <= MaxHours
    /\ now' = now + TickHours
    /\ UNCHANGED <<auxVars, settleVars, httpResp, zipSize, manifest, ioFails, user, userAtStart, jobVars,
                   taskVars, fs, charged, logs, cancelVars>>

Next ==
    \/ Mkdir \/ StartProcessing \/ ExtractZip \/ ParseCsv \/ SaveTotal
    \/ ProcessInvoice \/ UpdateProgress \/ CreateOutputZip \/ Finalize \/ SaveErrors
    \/ Charge \/ LogUsage \/ Release \/ Catch \/ BackgroundCatch
    \/ CancelLoad \/ CancelDecide \/ cleanupOldJobs \/ Tick

Spec == Init /\ [][Next]_vars

\* the runs in which no file-system or database call fails: the handler of
\* processInBackground is never entered
InitReliable == Init /\ ~ioFails

NextReliable ==
    \/ Mkdir \/ StartProcessing \/ ExtractZip \/ ParseCsv \/ SaveTotal
    \/ ProcessInvoice \/ UpdateProgress \/ CreateOutputZip \/ Finalize \/ SaveErrors
    \/ Charge \/ LogUsage \/ Release \/ Catch
    \/ CancelLoad \/ CancelDecide \/ cleanupOldJobs \/ Tick

SpecReliable == InitReliable /\ [][NextReliable]_vars

\* the runs in which no cancel request is made
NextNoCancel ==
    \/ Mkdir \/ StartProcessing \/ ExtractZip \/ ParseCsv \/ SaveTotal
    \/ ProcessInvoice \/ UpdateProgress \/ CreateOutputZip \/ Finalize \/ SaveErrors
    \/ Charge \/ LogUsage \/ Release \/ Catch \/ BackgroundCatch
    \/ cleanupOldJobs \/ Tick

SpecNoCancel == Init /\ [][NextNoCancel]_vars

\* the reliable runs, with download and status requests.  An answer is
\* computed from the one query of its request, so the steps the other
\* processes take while it is on the wire are ordered after its sending.
NextDownload ==
    \/ httpResp = NoResponse /\ NextReliable
    \/ Download \/ Status \/ ResponseSent

SpecDownload == InitReliable /\ [][NextDownload]_vars

\* two other jobs of the user reach their settlement
InitSettle ==
    /\ now = 0
    /\ zipSize \in ZipSizes
    /\ manifest = NoRecords
    /\ ioFails = FALSE
    /\ user \in SettleUsers
    /\ quotaCheck(user)
    /\ userAtStart = user
    /\ db = createJob(estimatedInvoices(zipSize))
    /\ mem = db
    /\ orig = db
    /\ pc = "mkdir"
    /\ metadata = NoRecords
    /\ idx = 1
    /\ processed = 0
    /\ errors = <<>>
    /\ fatal = NoText
    /\ result = NoResult
    /\ packaged = FALSE
    /\ fs = [input |-> FALSE, output |-> FALSE, outFiles |-> {}, zip |-> FALSE,
             zipFiles |-> {}, uploadZip |-> TRUE, uploadCsv |-> TRUE]
    /\ charged = <<>>
    /\ logs = <<>>
    /\ attempts = <<>>
    /\ cancelPc = "idle"
    /\ cancelJob = NoJob
    /\ trx \in [Settlements ->
                   {[pc |-> "ready", count |-> n, row |-> NoRow] : n \in 0..MaxRecords}]
    /\ rowLock = 0
    /\ httpResp = NoResponse
    /\ AuxIdle

NextSettle ==
    \/ \E t \in Settlements : SettleBegin(t)
    \/ \E t \in Settlements : SettleCommit(t)
    \/ Tick

SpecSettle == InitSettle /\ [][NextSettle]_vars

(* ------------------- parseCsv, webhooks, rate limiter ------------------ *)
\* the batch pipeline at rest: a job just submitted, whose task has not started
JobIdle ==
    /\ now = 0
    /\ zipSize \in ZipSizes
    /\ manifest = NoRecords
    /\ ioFails = FALSE
    /\ db = createJob(estimatedInvoices(zipSize))
    /\ mem = db
    /\ orig = db
    /\ pc = "mkdir"
    /\ metadata = NoRecords
    /\ idx = 1
    /\ processed = 0
    /\ errors = <<>>
    /\ fatal = NoText
    /\ result = NoResult
    /\ packaged = FALSE
    /\ fs = [input |-> FALSE, output |-> FALSE, outFiles |-> {}, zip |-> FALSE,
             zipFiles |-> {}, uploadZip |-> TRUE, uploadCsv |-> TRUE]
    /\ charged = <<>>
    /\ logs = <<>>
    /\ attempts = <<>>
    /\ cancelPc = "idle"
    /\ cancelJob = NoJob
    /\ trx = [t \in Settlements |-> NoSettlement]
    /\ rowLock = 0
    /\ httpResp = NoResponse

pipelineVars ==
    <<settleVars, httpResp, envVars, jobVars, taskVars, fs, charged, logs, cancelVars>>

\* parseCsv: one row of the manifest is mapped to a record
ParseRow ==
    /\ ~csv.parsed
    /\ csv' = [csv EXCEPT !.parsed = TRUE, !.out = parseCsvRecord(csv.row)]
    /\ UNCHANGED <<pipelineVars, user, wh, rl>>

InitCsv ==
    /\ JobIdle
    /\ user = NoRow
    /\ userAtStart = user
    /\ csv \in {[NoCsv EXCEPT !.row = r] : r \in CsvRows(MaxColumns)}
    /\ wh = NoWebhook
    /\ rl = NoLimiter

NextCsv == ParseRow

SpecCsv == InitCsv /\ [][NextCsv]_vars

\* handleWebhookEvent of delivery d: the lookup made before the transaction
WebhookLookup(d) ==
    /\ wh.pc[d] = "ready"
    /\ wh' = [wh EXCEPT !.pc[d] = IF wh.marker THEN "skipped" ELSE "lookedUp"]
    /\ UNCHANGED <<pipelineVars, user, csv, rl>>

\* the transaction begins and inserts the processed_events row
WebhookInsert(d) ==
    /\ wh.pc[d] = "lookedUp"
    /\ uniqueIndex(wh) # "wait"
    /\ wh' = IF uniqueIndex(wh) = "violation"
             THEN [wh EXCEPT !.pc[d] = "duplicate"]
             ELSE [wh EXCEPT !.pc[d] = "inserted", !.holder = d]
    /\ UNCHANGED <<pipelineVars, user, csv, rl>>

\* the handler of the event saves the user and the transaction commits
WebhookCommit(d) ==
    /\ wh.pc[d] = "inserted"
    /\ user' = dispatch(user, wh.event)
    /\ wh' = [wh EXCEPT !.pc[d] = "done",
                        !.marker = TRUE,
                        !.holder = IF @ = d THEN 0 ELSE @,
                        !.applied = @ + 1]
    /\ UNCHANGED <<pipelineVars, csv, rl>>

\* the handler throws and the transaction rolls back
WebhookFail(d) ==
    /\ wh.pc[d] = "inserted"
    /\ wh' = [wh EXCEPT !.pc[d] = "failed",
                        !.holder = IF @ = d THEN 0 ELSE @]
    /\ UNCHANGED <<pipelineVars, user, csv, rl>>

InitWebhook ==
    /\ JobIdle
    /\ user \in WebhookUsers
    /\ userAtStart = user
    /\ csv = NoCsv
    /\ wh \in {[NoWebhook EXCEPT !.event = e, !.pc = [d \in Deliveries |-> "ready"]] :
                  e \in WebhookEvents}
    /\ rl = NoLimiter

NextWebhook ==
    \/ \E d \in Deliveries : WebhookLookup(d)
    \/ \E d \in Deliveries : WebhookInsert(d)
    \/ \E d \in Deliveries : WebhookCommit(d)
    \/ \E d \in Deliveries : WebhookFail(d)

SpecWebhook == InitWebhook /\ [][NextWebhook]_vars

\* a request reaches the rate limit middleware
Request(k) ==
    /\ rl.sent < MaxSent
    /\ LET r == handle(rl.store, k, rl.clock)
           w == rl.window[k]
           routed == IF r.code = "next" THEN 1 ELSE 0
       IN  rl' = [rl EXCEPT
                     !.store = r.store,
                     !.sent = @ + 1,
                     !.last = [key |-> k, code |-> r.code],
                     !.window[k] =
                         IF w.endsAt = NoTime \/ rl.clock > w.endsAt
                         THEN [endsAt |-> rl.clock + RateWindowMs, routed |-> routed]
                         ELSE [w EXCEPT !.routed = @ + routed]]
    /\ UNCHANGED <<pipelineVars, user, csv, wh>>

\* the setInterval callback that drops the expired entries
Cleanup ==
    /\ cleaned(rl.store, rl.clock) # rl.store
    /\ rl' = [rl EXCEPT !.store = cleaned(rl.store, rl.clock)]
    /\ UNCHANGED <<pipelineVars, user, csv, wh>>

TickMillis ==
    /\ rl.clock + TickMs <= MaxClockMs
    /\ rl' = [rl EXCEPT !.clock = @ + TickMs]
    /\ UNCHANGED <<pipelineVars, user, csv, wh>>

InitRateLimit ==
    /\ JobIdle
    /\ user = NoRow
    /\ userAtStart = user
    /\ AuxIdle

NextRateLimit ==
    \/ \E k \in Keys : Request(k)
    \/ Cleanup
    \/ TickMillis

SpecRateLimit == InitRateLimit /\ [][NextRateLimit]_vars

(* ============================== claims ================================ *)

\* C1: once the persisted status is completed, failed or cancelled, no later
\* step changes the status or any other field of the row; the only change
\* allowed is the retention sweep setting outputZipPath and downloadUrl to null.
C1_TerminalRowImmutable ==
    [][db.status \in Terminal => (db' = db \/ db' = Swept(db))]_vars

\* C2: for a job that ends completed, the amount charged by chargeForInvoices
\* equals the persisted processedInvoices times the unit price.
C2_ChargeEqualsPersistedProcessed ==
    (pc = "done" /\ db.status = "completed")
        => UnitPriceCents * SumSeq(charged) = UnitPriceCents * db.processedInvoices

\* C3: when processJob finishes without a fatal error, the persisted
\* processedInvoices and failedInvoices are the counts of the returned result.
C3_PersistedCountsAreResultCounts ==
    (pc = "done" /\ result.returned /\ fatal = NoText)
        => /\ db.processedInvoices = result.totalProcessed
           /\ db.failedInvoices = result.totalFailed

\* C4: a cancel request moves the persisted status to cancelled only from
\* pending or processing; when the row is already completed, failed or
\* cancelled the request is answered CANNOT_CANCEL and the row is unchanged.
C4_CancelOnlyWhileActive ==
    [][(cancelPc = "loaded" /\ cancelPc' = "idle")
          => IF db.status \in {"pending", "processing"}
             THEN db'.status \in {db.status, "cancelled"}
             ELSE db' = db /\ cancelResponse(cancelJob) = "CANNOT_CANCEL"]_vars

\* C5: when processJob ends through its top-level fatal handler, the user's
\* invoicesUsedThisMonth and creditBalance are what they were before the job.
C5_FatalJobNotBilled ==
    (pc = "done" /\ fatal # NoText)
        => /\ user.invoicesUsedThisMonth = userAtStart.invoicesUsedThisMonth
           /\ user.creditBalance = userAtStart.creditBalance

\* C6: the persisted status changes only along pending -> processing,
\* processing -> completed, processing -> failed, pending -> cancelled and
\* processing -> cancelled.
StatusEdges ==
    { <<"pending", "processing">>, <<"processing", "completed">>,
      <<"processing", "failed">>, <<"pending", "cancelled">>,
      <<"processing", "cancelled">> }

C6_StatusFollowsEdges ==
    [][db'.status # db.status => <<db.status, db'.status>> \in StatusEdges]_vars

\* C7: in every persisted snapshot of the job,
\* processedInvoices + failedInvoices <= totalInvoices.
C7_CountsWithinTotal ==
    db.processedInvoices + db.failedInvoices <= db.totalInvoices

\* a progress snapshot that accounts for every record of a manifest whose
\* length differs from the estimate made at submission
C7_Witness ==
    /\ db.status = "processing"
    /\ db.totalInvoices # estimatedInvoices(zipSize)
    /\ db.totalInvoices >= 2
    /\ db.processedInvoices + db.failedInvoices = db.totalInvoices

\* C8: in every persisted snapshot progress = round(processedInvoices /
\* totalInvoices * 100), and the progress computation never runs with
\* totalInvoices = 0.
C8_ProgressIsRoundedRatio ==
    /\ db.totalInvoices > 0
          => db.progress = RoundPercent(db.processedInvoices, db.totalInvoices)
    /\ pc = "updateProgress" => mem.totalInvoices # 0

\* C9: every manifest record is attempted exactly once, in manifest order; a
\* failing record is appended to the error list as {filename, message} and the
\* next record is still attempted, so that at the end of the loop
\* processed + errors.length is the number of records.
RECURSIVE FailuresOf(_)
FailuresOf(records) ==
    IF records = <<>> THEN <<>>
    ELSE LET rest == FailuresOf(Tail(records))
             row == Head(records)
         IN  IF row.filename \in DOMAIN Archive
                /\ Archive[row.filename].magic = "%PDF-"
                /\ Archive[row.filename].embeddable
             THEN rest
             ELSE <<row.filename>> \o rest

LoopEnded ==
    \/ pc \in {"createOutputZip", "finalize", "saveErrors", "charge", "logUsage", "release"}
    \/ pc = "done" /\ fatal = NoText

C9_EveryRecordAttemptedOnce ==
    /\ attempts = [i \in 1..Len(attempts) |-> i]
    /\ Len(attempts) <= RecordCount(metadata)
    /\ [k \in 1..Len(errors) |-> errors[k].filename]
          = FailuresOf(FirstRecords(metadata, Len(attempts)))
    /\ \A k \in 1..Len(errors) : errors[k].error # "ok"
    /\ processed + Len(errors) = Len(attempts)
    /\ LoopEnded => Len(attempts) = RecordCount(metadata)

\* the loop has ended after a failing record followed by a composed one
C9_Witness ==
    /\ pc = "createOutputZip"
    /\ RecordCount(metadata) = 2
    /\ attempts = <<1, 2>>
    /\ Len(errors) = 1
    /\ errors[1].filename = RecordAt(metadata, 1).filename
    /\ processed = 1

\* C10: after packaging, the job's final status is failed, with the summary
\* message and the per-item error list, exactly when every record failed;
\* otherwise it is completed with outputZipPath, outputSizeBytes and a
\* downloadExpiresAt 24 hours after completion, and with the error list
\* stored when some records failed.
C10_FinalStatusAfterPackaging ==
    (pc = "done" /\ packaged)
        => IF Len(errors) = RecordCount(metadata)
           THEN /\ db.status = "failed"
                /\ db.errorMessage = "Toutes les factures ont echoue"
                /\ db.errorsDetail = SomeList(errors)
           ELSE /\ db.status = "completed"
                /\ db.outputZipPath = OutputZipName
                /\ db.outputSizeBytes = ArchiveBytes(fs.zipFiles)
                /\ db.downloadExpiresAt = db.completedAt + DownloadTtlHours
                /\ Len(errors) > 0 => db.errorsDetail = SomeList(errors)

\* C11: two concurrent chargeForInvoices calls for the same user never lose an
\* update: once both have committed, invoicesUsedThisMonth has grown by
\* n1 + n2 and, for a user billed on credit, creditBalance has dropped by
\* 10 * (n1 + n2).
C11_NoLostSettlement ==
    (\A t \in Settlements : trx[t].pc = "committed")
        => /\ user.invoicesUsedThisMonth
                = userAtStart.invoicesUsedThisMonth + trx[1].count + trx[2].count
           /\ (userAtStart.plan # "free" /\ userAtStart.subscriptionEndsAt = NoTime)
                => user.creditBalance
                     = userAtStart.creditBalance
                         - UnitPriceCents * (trx[1].count + trx[2].count)

\* both settlements of a user billed on credit have committed a non-zero count
C11_Witness ==
    /\ \A t \in Settlements : trx[t].pc = "committed" /\ trx[t].count >= 1
    /\ userAtStart.plan = "pro"
    /\ userAtStart.subscriptionEndsAt = NoTime
    /\ user.creditBalance < userAtStart.creditBalance

\* C12: chargeForInvoices is invoked at most once per job, and only after the
\* task has written the job's status as completed or failed.
C12_SettledOnceAfterFinalStatus ==
    [][ /\ (pc' = "charge" /\ pc # "charge")
            => /\ pc \in {"finalize", "saveErrors"}
               /\ charged = <<>>
               /\ fatal = NoText
        /\ (pc = "charge" /\ pc' # "charge")
            => /\ charged = <<>>
               /\ orig.status \in {"completed", "failed"}
               /\ mem.status = orig.status
               /\ (charged' # <<>> \/ fatal' # NoText)
        /\ charged' # charged => (pc = "charge" /\ Len(charged') = 1) ]_vars

\* the settlement of a completed job with two composed invoices has committed
C12_Witness ==
    /\ pc = "logUsage"
    /\ charged = <<2>>
    /\ orig.status = "completed"

C14_OutputFieldsIffCompleted ==
    /\ db.outputZipPath # NoText => db.status = "completed"
    /\ db.outputSizeBytes # NoSize => db.status = "completed"
    /\ db.status = "completed"
          => /\ db.outputSizeBytes # NoSize
             /\ db.outputZipPath # NoText \/ SweepSelects(db)

C16_InputsReleased ==
    /\ (pc = "done" /\ result.returned /\ db.status \in Terminal)
          => /\ ~fs.input
             /\ ~fs.uploadZip
             /\ ~fs.uploadCsv
    /\ (pc = "done" /\ fatal = NoText /\ db.status = "completed"
           /\ db.outputZipPath # NoText)
          => fs.zip

\* C17: every exception thrown in processJob outside the per-item try/catch is
\* caught by the top-level handler, which sets the job failed with the
\* exception's message, deletes the whole working directory and returns
\* success = false; no exception escapes processJob.
C17_FatalHandlerCatchesAll ==
    /\ pc \notin {"backgroundCatch", "unhandledRejection"}
    /\ (pc = "done" /\ fatal # NoText)
          => /\ result.returned
             /\ ~result.success
             /\ mem.status = "failed"
             /\ mem.errorMessage = fatal
             /\ ~fs.input /\ ~fs.output /\ ~fs.zip

\* C18: the download endpoint serves the archive only for a completed job
\* whose downloadExpiresAt is in the future; for any other status it answers
\* JOB_NOT_COMPLETED with the status and progress, for a completed job whose
\* downloadExpiresAt is in the past DOWNLOAD_EXPIRED; the status document's
\* downloadAvailable is true exactly for a completed, unexpired job.
C18_DownloadOnlyWhileValid ==
    [][(httpResp = NoResponse /\ httpResp' # NoResponse)
          => LET unexpired == /\ db.downloadExpiresAt # NoTime
                              /\ now < db.downloadExpiresAt
                 r == httpResp'
             IN  /\ r.kind = "download"
                    => /\ r.code = "FILE" => (db.status = "completed" /\ unexpired)
                       /\ db.status # "completed"
                             => /\ r.code = "JOB_NOT_COMPLETED"
                                /\ r.status = db.status
                                /\ r.progress = db.progress
                       /\ (db.status = "completed" /\ db.downloadExpiresAt # NoTime
                              /\ db.downloadExpiresAt < now)
                             => r.code = "DOWNLOAD_EXPIRED"
                 /\ r.kind = "status"
                    => (r.downloadAvailable <=> (db.status = "completed" /\ unexpired))]_vars

\* a download request for a completed job is answered after the expiry date
C18_Witness ==
    /\ httpResp.kind = "download"
    /\ httpResp.code = "DOWNLOAD_EXPIRED"
    /\ db.status = "completed"
    /\ db.downloadExpiresAt < now

\* C19: cleanupOldJobs acts only on a job that is completed with completedAt
\* more than 24 hours in the past; it sets outputZipPath and downloadUrl to
\* null and leaves every other field of the job unchanged.
C19_SweepFrame ==
    [][ /\ cleanupOldJobs
            => /\ SweepSelects(db)
               /\ \A f \in DOMAIN db \ {"outputZipPath", "downloadUrl"} : db'[f] = db[f]
               /\ \/ db'.outputZipPath = NoText /\ db'.downloadUrl = NoText
                  \/ ioFails /\ db' = db
        /\ (fs.zip /\ ~fs'.zip /\ pc' = pc) => SweepSelects(db) ]_vars

\* a swept job keeps its counters, archive size and per-item error list
C19_Witness ==
    /\ db.status = "completed"
    /\ db.outputZipPath = NoText
    /\ ~fs.zip
    /\ db.outputSizeBytes # NoSize
    /\ db.errorsDetail.present
    /\ db.totalInvoices = 2

C21_AliasOrder ==
    csv.parsed
        => LET populated(h) == csv.row[h] # Undefined /\ csv.row[h] # ""
               first(aliases, default) ==
                   IF populated(aliases[1]) THEN csv.row[aliases[1]]
                   ELSE IF populated(aliases[2]) THEN csv.row[aliases[2]]
                   ELSE IF populated(aliases[3]) THEN csv.row[aliases[3]]
                   ELSE default
           IN  /\ (\E i \in 1..3 : populated(SellerSiretAliases[i]))
                     => csv.out.sellerSiret = first(SellerSiretAliases, Undefined)
               /\ (\A i \in 1..3 : ~populated(SellerSiretAliases[i]))
                     => csv.out.sellerSiret \in {Undefined, ""}
               /\ csv.out.sellerCountryCode = first(SellerCountryAliases, "FR")
               /\ csv.out.buyerCountryCode = first(BuyerCountryAliases, "FR")
               /\ csv.out.currencyCode = first(CurrencyAliases, "EUR")

\* a row with sellerSiret and siret_vendeur populated, an empty pays_vendeur
\* cell and no currency column has been parsed
C21_Witness ==
    /\ csv.parsed
    /\ csv.row["sellerSiret"] = "sellerSiret"
    /\ csv.row["siret_vendeur"] = "siret_vendeur"
    /\ csv.out.sellerSiret = "sellerSiret"
    /\ csv.row["pays_vendeur"] = ""
    /\ csv.row["sellerCountryCode"] = Undefined
    /\ csv.row["seller_country"] = Undefined
    /\ csv.out.sellerCountryCode = "FR"
    /\ csv.out.currencyCode = "EUR"

\* C22: the effects of a Stripe event on the user are applied at most once,
\* however many times it is delivered and also when deliveries pass the
\* lookup before any of them inserts its processed_events row; when the
\* handler fails inside the transaction neither the processed_events row nor
\* a user change is persisted, and a later delivery is not skipped.
C22_WebhookAppliedOnce ==
    /\ [](/\ wh.applied <= 1
          /\ wh.marker <=> wh.applied = 1
          /\ user = IF wh.applied = 0 THEN userAtStart
                    ELSE dispatch(userAtStart, wh.event)
          /\ \A d \in Deliveries : wh.pc[d] \in {"skipped", "duplicate"} => wh.marker)
    /\ [][\A d \in Deliveries :
            /\ (wh.pc[d] = "inserted" /\ wh'.pc[d] = "failed")
                  => /\ ~wh'.marker
                     /\ wh'.holder = 0
                     /\ user' = userAtStart
            /\ (wh.pc[d] = "ready" /\ wh'.pc[d] # "ready" /\ ~wh.marker)
                  => wh'.pc[d] = "lookedUp"]_vars

\* three deliveries passed the lookup together: the handler of one failed,
\* the next one committed a change of the user and the last one was refused
\* by the unique index
C22_Witness ==
    /\ \E d \in Deliveries : wh.pc[d] = "failed"
    /\ \E d \in Deliveries : wh.pc[d] = "done"
    /\ \E d \in Deliveries : wh.pc[d] = "duplicate"
    /\ wh.applied = 1
    /\ user # userAtStart

\* C23: a user on the free plan has at most 1 invoice generated per month:
\* with the quota checked at submission on the declared count and the charge
\* applied for the records processed, invoicesUsedThisMonth never exceeds 1
\* and at most 1 invoice is produced for the user.
C23_FreePlanOneInvoice ==
    userAtStart.plan = "free"
        => /\ user.invoicesUsedThisMonth <= 1
           /\ Cardinality(fs.outFiles) <= 1

\* C24: in every persisted state totalCostCents = totalInvoices * 10, and when
\* the parsed record count differs from the estimate made at submission,
\* totalInvoices and totalCostCents are corrected and saved before the first
\* record is composed and before any progress snapshot is written.
C24_CostFollowsTotal ==
    /\ db.totalCostCents = db.totalInvoices * UnitPriceCents
    /\ (pc \in {"processInvoice", "updateProgress"} \/ attempts # <<>>)
          => /\ db.totalInvoices = RecordCount(metadata)
             /\ db.totalCostCents = RecordCount(metadata) * UnitPriceCents
    /\ db.totalInvoices # RecordCount(metadata)
          => db.processedInvoices = 0 /\ db.failedInvoices = 0 /\ db.progress = 0

\* the corrected total of a two-record manifest is persisted and no record
\* has been handed to processInvoice yet
C24_Witness ==
    /\ pc = "processInvoice"
    /\ attempts = <<>>
    /\ RecordCount(metadata) = 2
    /\ estimatedInvoices(zipSize) # 2
    /\ db.totalInvoices = 2
    /\ db.totalCostCents = 2 * UnitPriceCents

\* C25: across the persisted snapshots of a job processedInvoices,
\* failedInvoices and progress never decrease, and they are written only by
\* the background task: a step of the cancel endpoint or of the retention
\* sweep leaves them unchanged.
C25_CountersMonotonic ==
    [][ /\ db'.processedInvoices >= db.processedInvoices
        /\ db'.failedInvoices >= db.failedInvoices
        /\ db'.progress >= db.progress
        /\ (cancelPc' # cancelPc \/ cleanupOldJobs)
              => /\ db'.processedInvoices = db.processedInvoices
                 /\ db'.failedInvoices = db.failedInvoices
                 /\ db'.progress = db.progress ]_vars

\* the second progress snapshot of a two-record batch has been written
C25_Witness ==
    /\ db.status = "processing"
    /\ db.totalInvoices = 2
    /\ db.processedInvoices = 2
    /\ db.progress = 100
    /\ pc = "createOutputZip"

\* C26: for a job that ends completed, the number of files in the output
\* archive equals the number of records counted as processed and billed, also
\* when two manifest records carry the same invoice number.
C26_ArchiveHoldsEveryProcessed ==
    (/\ pc \in {"saveErrors", "charge", "logUsage", "release", "done"}
     /\ fatal = NoText
     /\ db.status = "completed"
     /\ fs.zip)
        => Cardinality(fs.zipFiles) = processed

\* C27: once a cancel request has written the status cancelled, the job is
\* not billed: no later step changes the user's invoicesUsedThisMonth or
\* creditBalance, and the persisted status stays cancelled.
C27_CancelledNeverBilled ==
    [][db.status = "cancelled"
          => /\ db'.status = "cancelled"
             /\ user'.invoicesUsedThisMonth = user.invoicesUsedThisMonth
             /\ user'.creditBalance = user.creditBalance]_vars

\* C28: creditBalance is never negative.  chargeForInvoices(count) on a user
\* billed on credit with creditBalance < 10 * count throws and leaves
\* creditBalance and invoicesUsedThisMonth unchanged, otherwise it subtracts
\* 10 * count and adds count to invoicesUsedThisMonth; for a free or actively
\* subscribed user it only adds count to invoicesUsedThisMonth.
C28_CreditNeverNegative ==
    /\ [](user.creditBalance >= 0)
    /\ [][\A t \in Settlements :
            (trx[t].pc = "locked" /\ trx'[t].pc # "locked")
               => LET n == trx[t].count
                      onCredit == user.plan # "free" /\ ~hasActiveSubscription(user)
                  IN  IF onCredit /\ user.creditBalance < UnitPriceCents * n
                      THEN /\ trx'[t].pc = "rolledBack"
                           /\ user' = user
                      ELSE /\ trx'[t].pc = "committed"
                           /\ user'.invoicesUsedThisMonth = user.invoicesUsedThisMonth + n
                           /\ user'.creditBalance
                                 = IF onCredit THEN user.creditBalance - UnitPriceCents * n
                                   ELSE user.creditBalance
                           /\ user'.plan = user.plan
                           /\ user'.subscriptionEndsAt = user.subscriptionEndsAt]_vars

\* a user billed on credit has paid one settlement to the last cent and the
\* other settlement was refused
C28_Witness ==
    /\ userAtStart.plan = "pro"
    /\ userAtStart.subscriptionEndsAt = NoTime
    /\ userAtStart.creditBalance = UnitPriceCents
    /\ user.creditBalance = 0
    /\ \E t \in Settlements : trx[t].pc = "committed" /\ trx[t].count = 1
    /\ \E t \in Settlements : trx[t].pc = "rolledBack" /\ trx[t].count >= 1

\* C29: every job handed to the background task leaves the pending and
\* processing statuses: when every I/O step returns or throws, the task ends
\* and the persisted status is then completed, failed or cancelled.
C29_JobLeavesActiveStatus ==
    pc \in {"done", "unhandledRejection"} => db.status \in Terminal

\* C30: for each rate-limit key, within one window (from the request that
\* opens it until its resetAt) at most maxRequests requests are passed on to
\* the route; every further request of the window is answered 429
\* RATE_LIMIT_EXCEEDED without reaching the route, and the first request
\* arriving after resetAt opens a new window with count 1.
C30_WindowPassesAtMostMax ==
    /\ [](\A k \in Keys :
            /\ rl.window[k].routed <= RateLimitMax
            /\ rl.store[k] # NoEntry => rl.store[k].resetAt = rl.window[k].endsAt)
    /\ [][rl'.sent # rl.sent
            => LET k == rl'.last.key
                   w == rl.window[k]
                   inWindow == w.endsAt # NoTime /\ rl.clock <= w.endsAt
               IN  /\ (inWindow /\ w.routed >= RateLimitMax)
                         => /\ rl'.last.code = "RATE_LIMIT_EXCEEDED"
                            /\ rl'.window[k].routed = w.routed
                   /\ (inWindow /\ w.routed < RateLimitMax)
                         => /\ rl'.last.code = "next"
                            /\ rl'.window[k].routed = w.routed + 1
                   /\ ~inWindow
                         => /\ rl'.store[k] = [count |-> 1,
                                               resetAt |-> rl.clock + RateWindowMs]
                            /\ rl'.last.code = "next"
                   /\ \A other \in Keys \ {k} : rl'.store[other] = rl.store[other]]_vars

\* a key is in its second window, whose eleventh request has just been
\* answered 429
C30_Witness ==
    /\ rl.last.code = "RATE_LIMIT_EXCEEDED"
    /\ rl.store[rl.last.key].count = RateLimitMax + 1
    /\ rl.store[rl.last.key].resetAt > RateWindowMs
    /\ rl.window[rl.last.key].routed = RateLimitMax

====
